---- MODULE Spec2Model ----
(***************************************************************************)
(* A model of the typing-session engine of src/src/lib.rs (struct          *)
(* TypingApp).  The struct's fields are the variables; every public        *)
(* (#[wasm_bindgen]) method is one action.  Private methods are operators  *)
(* that map a record of the struct's fields to the record after the call,  *)
(* so that an action is the whole handler, nested calls included.          *)
(*                                                                         *)
(* Time is Date::now() in milliseconds.  The clock only takes the values   *)
(* k * TickMs for k in 0..MaxTicks.  Strings are sequences of characters;  *)
(* a character of WideChars takes two bytes in UTF-8, the others one, so   *)
(* that str::len() (bytes) and chars() (characters) differ as in Rust.     *)
(***************************************************************************)
EXTENDS Integers, Sequences, FiniteSets

\* ---------------------------------------------------------------- bounds
MaxTicks == 2
TickMs == 60000
MaxUpdates == 2
MaxCount == 2

\* ------------------------------------------------------ program constants
DefaultDuration == 120
CountdownStart == 5
MinNameLen == 2
MaxWpm == 300
MaxAccuracy == 100
CharsPerWord == 5
MsPerMinute == 60000
MsPerSecond == 1000
MinElapsedMs == 1000

None == -1

WideChars == {"E"}

States == {"Loading", "Welcome", "Language", "Timer", "Countdown",
           "Playing", "TimesUp", "Results"}

\* str::len(): the length of a string in bytes.
RECURSIVE ByteLen(_)
ByteLen(s) ==
    IF s = <<>> THEN 0
    ELSE (IF Head(s) \in WideChars THEN 2 ELSE 1) + ByteLen(Tail(s))

\* The typed texts the host submits: the empty text, a text that is a
\* sentence, a prefix of one and longer than one, and a two-byte character.
Texts == {<<>>, <<"a">>, <<"E">>, <<"a", "a">>}

\* The sentence table built by TypingApp::new, with short stand-ins for the
\* sentences: "id" and "en" are ASCII, "es" and "fr" hold two-byte characters.
sentences ==
    [code \in {"en", "es", "fr", "id"} |->
        CASE code = "en" -> {<<"a", "a">>}
          [] code = "es" -> {<<"E">>}
          [] code = "fr" -> {<<"a", "E">>}
          [] code = "id" -> {<<"a">>, <<"a", "a">>}]

\* The user data TypingApp::new starts from.
DefaultUserData ==
    [name |-> <<>>, language |-> "id", language_name |-> "Bahasa Indonesia",
     duration |-> DefaultDuration, best_wpm |-> 0, best_accuracy |-> 0,
     total_sessions |-> 0]

\* What localStorage may hold under "typingAppUserData" besides what this
\* instance saved: nothing that parses (absent), or a profile written by an
\* earlier run, by another tab or by hand.
NoProfile == [present |-> FALSE, data |-> DefaultUserData]
StoredProfiles ==
    {NoProfile,
     [present |-> TRUE,
      data |-> [name |-> <<"E">>, language |-> "xx",
                language_name |-> "Klingon", duration |-> 60, best_wpm |-> 0,
                best_accuracy |-> 0, total_sessions |-> 0]]}

\* The inputs the host passes to the configuration methods.
NameInputs == {<<"a">>, <<"E">>, <<"a", "a">>}
LanguageInputs == {<<"es", "Espanol">>, <<"xx", "Klingon">>}
DurationInputs == {0}

NoResult ==
    [some |-> FALSE, wpm |-> 0, accuracy |-> 0, typed_chars |-> 0,
     correct_chars |-> 0, time_spent |-> 0, sentences_completed |-> 0]

\* The value update_typing_progress returned, when it was the last call.
NoProgress ==
    [valid |-> FALSE, correct_chars |-> 0, typed_chars |-> 0,
     wpm |-> [num |-> 0, den |-> 1], accuracy |-> [num |-> 0, den |-> 1],
     is_complete |-> FALSE, time_expired |-> FALSE, remaining_time |-> 0]

VARIABLES
    user_data, session_result, app_state,
    current_sentence, start_time, end_time, typed_chars, correct_chars, is_active,
    session_start_time, session_total_typed_chars, session_total_correct_chars,
    session_total_time_spent, session_sentences_completed,
    countdown_value,
    storage,        \* localStorage item "typingAppUserData"
    now,            \* the clock, Date::now()
    last_result,    \* the value returned by update_typing_progress
    last_ok,        \* the value returned by set_user_name
    last_call,      \* history: the last handler, its text argument, the
                    \* state it was called in and the methods it ran
    session_ended,  \* history: end_session ran since the last initialize_game
    updates         \* history: the number of typed texts submitted so far

vars ==
    <<user_data, session_result, app_state, current_sentence, start_time,
      end_time, typed_chars, correct_chars, is_active, session_start_time,
      session_total_typed_chars, session_total_correct_chars,
      session_total_time_spent, session_sentences_completed, countdown_value,
      storage, now, last_result, last_ok, last_call, session_ended, updates>>

\* The struct (and the history that goes with it) as one record.
Self ==
    [user_data |-> user_data, session_result |-> session_result,
     app_state |-> app_state, current_sentence |-> current_sentence,
     start_time |-> start_time, end_time |-> end_time,
     typed_chars |-> typed_chars, correct_chars |-> correct_chars,
     is_active |-> is_active, session_start_time |-> session_start_time,
     session_total_typed_chars |-> session_total_typed_chars,
     session_total_correct_chars |-> session_total_correct_chars,
     session_total_time_spent |-> session_total_time_spent,
     session_sentences_completed |-> session_sentences_completed,
     countdown_value |-> countdown_value, storage |-> storage,
     fns |-> {}, session_ended |-> session_ended]

\* The handler `op`, entered in the current state with the string
\* argument(s) text, leaves the struct as s (s is evaluated once).
CommitCall(op, text, s) ==
    \E self \in {s} :
        /\ user_data' = self.user_data
        /\ session_result' = self.session_result
        /\ app_state' = self.app_state
        /\ current_sentence' = self.current_sentence
        /\ start_time' = self.start_time
        /\ end_time' = self.end_time
        /\ typed_chars' = self.typed_chars
        /\ correct_chars' = self.correct_chars
        /\ is_active' = self.is_active
        /\ session_start_time' = self.session_start_time
        /\ session_total_typed_chars' = self.session_total_typed_chars
        /\ session_total_correct_chars' = self.session_total_correct_chars
        /\ session_total_time_spent' = self.session_total_time_spent
        /\ session_sentences_completed' = self.session_sentences_completed
        /\ countdown_value' = self.countdown_value
        /\ storage' = self.storage
        /\ session_ended' = self.session_ended
        /\ last_call' =
               [op |-> op, text |-> text, fns |-> self.fns, from |-> app_state]

\* A handler without a string argument.
Commit(op, s) == CommitCall(op, <<>>, s)

Ran(s, fn) == [s EXCEPT !.fns = @ \cup {fn}]

Max(a, b) == IF a > b THEN a ELSE b

Min(a, b) == IF a < b THEN a ELSE b

Init ==
    /\ user_data = DefaultUserData
    /\ session_result = NoResult
    /\ app_state = "Loading"
    /\ current_sentence = <<>>
    /\ start_time = None
    /\ end_time = None
    /\ typed_chars = 0
    /\ correct_chars = 0
    /\ is_active = FALSE
    /\ session_start_time = None
    /\ session_total_typed_chars = 0
    /\ session_total_correct_chars = 0
    /\ session_total_time_spent = 0
    /\ session_sentences_completed = 0
    /\ countdown_value = CountdownStart
    /\ storage = NoProfile
    /\ now = 0
    /\ last_result = NoProgress
    /\ last_ok = "none"
    /\ last_call =
           [op |-> "new", text |-> <<>>, fns |-> {}, from |-> "Loading"]
    /\ session_ended = FALSE
    /\ updates = 0

\* ------------------------------------------------------------ persistence
save_user_data(s) ==
    [s EXCEPT !.storage = [present |-> TRUE, data |-> s.user_data]]

load_user_data(s) ==
    IF s.storage.present THEN [s EXCEPT !.user_data = s.storage.data] ELSE s

\* ------------------------------------------------------------ calculation
\* An f64 result is kept exactly, as the fraction num / den.
Clamp(r, hi) == IF r.num > hi * r.den THEN [num |-> hi, den |-> 1] ELSE r

\* `x as u32` of a non-negative f64.
AsU32(r) == r.num \div r.den

\* session_total_time_spent is kept in milliseconds (the code keeps seconds).
calculate_session_wpm(s) ==
    IF s.session_total_typed_chars = 0 \/ s.session_total_time_spent = 0
    THEN [num |-> 0, den |-> 1]
    ELSE Clamp([num |-> s.session_total_typed_chars * MsPerMinute,
                den |-> CharsPerWord * s.session_total_time_spent], MaxWpm)

calculate_session_accuracy(s) ==
    IF s.session_total_typed_chars = 0
    THEN [num |-> MaxAccuracy, den |-> 1]
    ELSE Clamp([num |-> s.session_total_correct_chars * MaxAccuracy,
                den |-> s.session_total_typed_chars], MaxAccuracy)

\* Mutant of is_time_expired: the session expires only after the duration.
is_time_expired_strictly_after(s, t) ==
    IF s.session_start_time # None
    THEN t - s.session_start_time > s.user_data.duration * MsPerSecond
    ELSE FALSE

is_time_expired(s, t) ==
    IF s.session_start_time # None
    THEN t - s.session_start_time >= s.user_data.duration * MsPerSecond
    ELSE FALSE

\* In milliseconds (the code returns seconds).
get_remaining_time(s, t) ==
    IF s.session_start_time # None
    THEN Max(s.user_data.duration * MsPerSecond - (t - s.session_start_time), 0)
    ELSE s.user_data.duration * MsPerSecond

\* Mutant of calculate_current_wpm: no minimum elapsed time, only a guard
\* against dividing by zero.
calculate_current_wpm_no_min_elapsed(s, t) ==
    IF s.typed_chars = 0 \/ s.start_time = None
    THEN [num |-> 0, den |-> 1]
    ELSE IF t - s.start_time <= 0
         THEN [num |-> 0, den |-> 1]
         ELSE Clamp([num |-> s.typed_chars * MsPerMinute,
                     den |-> CharsPerWord * (t - s.start_time)], MaxWpm)

calculate_current_wpm(s, t) ==
    IF s.typed_chars = 0 \/ s.start_time = None
    THEN [num |-> 0, den |-> 1]
    ELSE IF t - s.start_time < MinElapsedMs
         THEN [num |-> 0, den |-> 1]
         ELSE Clamp([num |-> s.typed_chars * MsPerMinute,
                     den |-> CharsPerWord * (t - s.start_time)], MaxWpm)

\* Mutant of calculate_current_accuracy: nothing typed counts as 0 percent.
calculate_current_accuracy_zero_when_empty(s) ==
    IF s.typed_chars = 0
    THEN [num |-> 0, den |-> 1]
    ELSE Clamp([num |-> s.correct_chars * MaxAccuracy, den |-> s.typed_chars],
               MaxAccuracy)

calculate_current_accuracy(s) ==
    IF s.typed_chars = 0
    THEN [num |-> MaxAccuracy, den |-> 1]
    ELSE Clamp([num |-> s.correct_chars * MaxAccuracy, den |-> s.typed_chars],
               MaxAccuracy)

create_progress_result(s, is_complete, time_expired, t) ==
    [valid |-> TRUE, correct_chars |-> s.correct_chars,
     typed_chars |-> s.typed_chars, wpm |-> calculate_current_wpm(s, t),
     accuracy |-> calculate_current_accuracy(s), is_complete |-> is_complete,
     time_expired |-> time_expired, remaining_time |-> get_remaining_time(s, t)]

\* ------------------------------------------------------------- game state
\* Mutant of reset_current_sentence: the start time is left in place.
reset_current_sentence_keeps_start(s) ==
    [s EXCEPT !.end_time = None, !.typed_chars = 0, !.correct_chars = 0,
              !.is_active = FALSE]

reset_current_sentence(s) ==
    [s EXCEPT !.start_time = None, !.end_time = None, !.typed_chars = 0,
              !.correct_chars = 0, !.is_active = FALSE]

\* Mutant of initialize_game: the typed-character total is not cleared.
initialize_game_keeps_typed(s, t) ==
    reset_current_sentence(
        Ran([s EXCEPT !.session_start_time = t,
                      !.session_total_correct_chars = 0,
                      !.session_total_time_spent = 0,
                      !.session_sentences_completed = 0,
                      !.session_ended = FALSE], "initialize_game"))

\* Mutant of initialize_game: the correct-character total is not cleared.
initialize_game_keeps_correct(s, t) ==
    reset_current_sentence(
        Ran([s EXCEPT !.session_start_time = t,
                      !.session_total_typed_chars = 0,
                      !.session_total_time_spent = 0,
                      !.session_sentences_completed = 0,
                      !.session_ended = FALSE], "initialize_game"))

initialize_game(s, t) ==
    reset_current_sentence(
        Ran([s EXCEPT !.session_start_time = t,
                      !.session_total_typed_chars = 0,
                      !.session_total_correct_chars = 0,
                      !.session_total_time_spent = 0,
                      !.session_sentences_completed = 0,
                      !.session_ended = FALSE], "initialize_game"))

\* Mutant of language_sentences: an unknown code yields the empty sentence
\* instead of the collection of "id".
language_sentences_empty_when_unknown(s) ==
    IF s.user_data.language \in DOMAIN sentences
    THEN sentences[s.user_data.language]
    ELSE {<<>>}

\* The collection generate_new_sentence draws from.
language_sentences(s) ==
    IF s.user_data.language \in DOMAIN sentences
    THEN sentences[s.user_data.language]
    ELSE sentences["id"]

\* pick is the sentence the random generator chooses.
generate_new_sentence(s, pick) ==
    reset_current_sentence(
        Ran([s EXCEPT !.current_sentence = pick], "generate_new_sentence"))

\* "start_typing" is recorded when the method assigns start_time.
start_typing(s, t) ==
    IF ~s.is_active
    THEN Ran([s EXCEPT !.start_time = t, !.is_active = TRUE], "start_typing")
    ELSE s

show_results(s) == Ran([s EXCEPT !.app_state = "Results"], "show_results")

end_session(s) ==
    LET s1 == [s EXCEPT !.is_active = FALSE]
        wpm == AsU32(calculate_session_wpm(s1))
        accuracy == AsU32(calculate_session_accuracy(s1))
        s2 == [s1 EXCEPT
                 !.session_result =
                     [some |-> TRUE, wpm |-> wpm, accuracy |-> accuracy,
                      typed_chars |-> s1.session_total_typed_chars,
                      correct_chars |-> s1.session_total_correct_chars,
                      time_spent |-> s1.session_total_time_spent,
                      sentences_completed |-> s1.session_sentences_completed],
                 !.user_data.total_sessions = @ + 1,
                 !.user_data.best_wpm = Max(@, wpm),
                 !.user_data.best_accuracy = Max(@, accuracy),
                 !.session_ended = TRUE]
    IN  show_results(save_user_data(Ran(s2, "end_session")))

\* Mutant of complete_sentence: the totals are set to the attempt's counts
\* instead of being increased by them.
complete_sentence_replaces_totals(s, t, pick) ==
    LET s1 == [s EXCEPT !.end_time = t, !.is_active = FALSE]
        s2 == IF s1.start_time # None /\ s1.end_time # None
              THEN [s1 EXCEPT !.session_total_time_spent =
                                  s1.end_time - s1.start_time]
              ELSE s1
        s3 == [s2 EXCEPT !.session_total_typed_chars = s2.typed_chars,
                         !.session_total_correct_chars = s2.correct_chars,
                         !.session_sentences_completed = @ + 1]
        s4 == Ran(s3, "complete_sentence")
    IN  IF ~is_time_expired(s4, t)
        THEN generate_new_sentence(s4, pick)
        ELSE end_session(s4)

\* t is the clock when the sentence completes.
complete_sentence(s, t, pick) ==
    LET s1 == [s EXCEPT !.end_time = t, !.is_active = FALSE]
        s2 == IF s1.start_time # None /\ s1.end_time # None
              THEN [s1 EXCEPT !.session_total_time_spent =
                                  @ + (s1.end_time - s1.start_time)]
              ELSE s1
        s3 == [s2 EXCEPT !.session_total_typed_chars = @ + s2.typed_chars,
                         !.session_total_correct_chars = @ + s2.correct_chars,
                         !.session_sentences_completed = @ + 1]
        s4 == Ran(s3, "complete_sentence")
    IN  IF ~is_time_expired(s4, t)
        THEN generate_new_sentence(s4, pick)
        ELSE end_session(s4)

\* Mutant of CountCorrect: a typed character counts when it occurs anywhere
\* in the sentence.
CountCorrect_any_position(typed, sentence) ==
    Cardinality({i \in 1..Len(typed) :
                    \E j \in 1..Len(sentence) : typed[i] = sentence[j]})

\* The number of typed characters that equal the sentence's character at
\* the same position.
CountCorrect(typed, sentence) ==
    Cardinality({i \in 1..Len(typed) :
                    i <= Len(sentence) /\ typed[i] = sentence[i]})

\* Mutant of IsComplete: the texts are compared by their character counts.
IsComplete_by_chars(typed_text, sentence) == Len(typed_text) >= Len(sentence)

IsComplete(typed_text, sentence) == ByteLen(typed_text) >= ByteLen(sentence)

\* The only element of the set S: Once({f(x) : x \in {e}}) is f(e), with e
\* evaluated once.
Once(S) == CHOOSE x \in S : TRUE

\* Mutant of update_typing_progress: every update adds the typed count to
\* the session total.
update_typing_progress_counts_every_update(s, typed_text, t0, t1, pick) ==
    Once({
      Once({
        Once({
          [self |-> s3,
           result |->
               create_progress_result(
                   s3, IsComplete(typed_text, s2.current_sentence),
                   is_time_expired(s2, t0), t1)]
          : s3 \in {IF /\ IsComplete(typed_text, s2.current_sentence)
                       /\ s2.is_active
                    THEN complete_sentence(s2, t1, pick)
                    ELSE IF is_time_expired(s2, t0) THEN end_session(s2)
                         ELSE s2}})
        : s2 \in {[s1 EXCEPT !.typed_chars = ByteLen(typed_text),
                             !.correct_chars =
                                 CountCorrect(typed_text,
                                              s1.current_sentence),
                             !.session_total_typed_chars =
                                 @ + ByteLen(typed_text)]}})
      : s1 \in {IF ~s.is_active THEN start_typing(s, t0) ELSE s}})

\* Mutant of update_typing_progress: an unfinished sentence is not ended by
\* the expiry of the session.
update_typing_progress_ignores_timeout(s, typed_text, t0, t1, pick) ==
    Once({
      Once({
        Once({
          [self |-> s3,
           result |->
               create_progress_result(
                   s3, IsComplete(typed_text, s2.current_sentence),
                   is_time_expired(s2, t0), t1)]
          : s3 \in {IF /\ IsComplete(typed_text, s2.current_sentence)
                       /\ s2.is_active
                    THEN complete_sentence(s2, t1, pick)
                    ELSE s2}})
        : s2 \in {[s1 EXCEPT !.typed_chars = ByteLen(typed_text),
                             !.correct_chars =
                                 CountCorrect(typed_text,
                                              s1.current_sentence)]}})
      : s1 \in {IF ~s.is_active THEN start_typing(s, t0) ELSE s}})

\* t0 is the clock on entry, t1 >= t0 the clock once the text was compared.
\* s1 is the struct once the attempt is active (lines 359-362), s2 once the
\* text is counted (364-376), s3 once the sentence or the session was
\* finished (379-390); the value returned is built from s3 (392).
update_typing_progress(s, typed_text, t0, t1, pick) ==
    Once({
      Once({
        Once({
          [self |-> s3,
           result |->
               create_progress_result(
                   s3, IsComplete(typed_text, s2.current_sentence),
                   is_time_expired(s2, t0), t1)]
          : s3 \in {IF /\ IsComplete(typed_text, s2.current_sentence)
                       /\ s2.is_active
                    THEN complete_sentence(s2, t1, pick)
                    ELSE IF is_time_expired(s2, t0) THEN end_session(s2)
                         ELSE s2}})
        : s2 \in {[s1 EXCEPT !.typed_chars = ByteLen(typed_text),
                             !.correct_chars =
                                 CountCorrect(typed_text,
                                              s1.current_sentence)]}})
      : s1 \in {IF ~s.is_active THEN start_typing(s, t0) ELSE s}})

\* ----------------------------------------------------------------- actions
\* What a handler that is neither update_typing_progress nor set_user_name
\* leaves of the returned values, and of the clock.
Returns(progress, ok) == last_result' = progress /\ last_ok' = ok

initialize_method(s) == [load_user_data(s) EXCEPT !.app_state = "Welcome"]

\* stored is what localStorage holds when the profile is loaded.
Initialize ==
    \E stored \in {storage} \cup StoredProfiles :
        /\ Commit("initialize",
                  initialize_method([Self EXCEPT !.storage = stored]))
        /\ Returns(NoProgress, "none")
        /\ UNCHANGED <<now, updates>>

set_user_name(s, name) ==
    IF ByteLen(name) >= MinNameLen
    THEN save_user_data([s EXCEPT !.user_data.name = name])
    ELSE s

SetUserName ==
    \E name \in NameInputs :
        /\ CommitCall("set_user_name", name, set_user_name(Self, name))
        /\ Returns(NoProgress,
                   IF ByteLen(name) >= MinNameLen THEN "true" ELSE "false")
        /\ UNCHANGED <<now, updates>>

\* Mutant of set_language: the code is stored without looking it up.
set_language_unchecked(s, lang_code, lang_name) ==
    save_user_data([s EXCEPT !.user_data.language = lang_code,
                             !.user_data.language_name = lang_name])

set_language(s, lang_code, lang_name) ==
    IF lang_code \in DOMAIN sentences
    THEN save_user_data([s EXCEPT !.user_data.language = lang_code,
                                  !.user_data.language_name = lang_name])
    ELSE s

SetLanguage ==
    \E lang \in LanguageInputs :
        /\ CommitCall("set_language", lang,
                      set_language(Self, lang[1], lang[2]))
        /\ Returns(NoProgress, "none")
        /\ UNCHANGED <<now, updates>>

set_duration(s, duration) ==
    save_user_data([s EXCEPT !.user_data.duration = duration])

SetDuration ==
    \E duration \in DurationInputs :
        /\ Commit("set_duration", set_duration(Self, duration))
        /\ Returns(NoProgress, "none")
        /\ UNCHANGED <<now, updates>>

proceed_to_language(s) ==
    IF s.user_data.name # <<>> THEN [s EXCEPT !.app_state = "Language"] ELSE s

ProceedToLanguage ==
    /\ Commit("proceed_to_language", proceed_to_language(Self))
    /\ Returns(NoProgress, "none")
    /\ UNCHANGED <<now, updates>>

proceed_to_timer(s) == [s EXCEPT !.app_state = "Timer"]

ProceedToTimer ==
    /\ Commit("proceed_to_timer", proceed_to_timer(Self))
    /\ Returns(NoProgress, "none")
    /\ UNCHANGED <<now, updates>>

start_countdown(s) ==
    Ran([s EXCEPT !.app_state = "Countdown",
                  !.countdown_value = CountdownStart], "start_countdown")

StartCountdown ==
    /\ Commit("start_countdown", start_countdown(Self))
    /\ Returns(NoProgress, "none")
    /\ UNCHANGED <<now, updates>>

start_game_session(s, t, pick) ==
    LET s1 == Ran([s EXCEPT !.app_state = "Playing"], "start_game_session")
    IN  generate_new_sentence(initialize_game(s1, t), pick)

countdown_tick(s, t, pick) ==
    IF s.countdown_value > 0
    THEN LET s1 == [s EXCEPT !.countdown_value = @ - 1]
         IN  IF s1.countdown_value = 0
             THEN start_game_session(s1, t, pick)
             ELSE s1
    ELSE s

CountdownTick ==
    \E pick \in language_sentences(Self) :
        /\ Commit("countdown_tick", countdown_tick(Self, now, pick))
        /\ Returns(NoProgress, "none")
        /\ UNCHANGED <<now, updates>>

StartGameSession ==
    \E pick \in language_sentences(Self) :
        /\ Commit("start_game_session", start_game_session(Self, now, pick))
        /\ Returns(NoProgress, "none")
        /\ UNCHANGED <<now, updates>>

GenerateNewSentence ==
    \E pick \in language_sentences(Self) :
        /\ Commit("generate_new_sentence", generate_new_sentence(Self, pick))
        /\ Returns(NoProgress, "none")
        /\ UNCHANGED <<now, updates>>

StartTyping ==
    /\ Commit("start_typing", start_typing(Self, now))
    /\ Returns(NoProgress, "none")
    /\ UNCHANGED <<now, updates>>

\* The host submits typed_text.  The clock may advance by adv ticks while
\* the handler runs; pick is the sentence a new draw would choose.
UpdateWith(typed_text, adv, pick) ==
    LET t1 == now + adv * TickMs
    IN  /\ t1 <= MaxTicks * TickMs
        /\ \E r \in {update_typing_progress(Self, typed_text, now, t1, pick)} :
               /\ CommitCall("update_typing_progress", typed_text, r.self)
               /\ Returns(r.result, "none")
        /\ now' = t1
        /\ updates' = Min(updates + 1, MaxUpdates)

\* The host submits at most MaxUpdates typed texts.
UpdateTypingProgress ==
    /\ updates < MaxUpdates
    /\ \E typed_text \in Texts, adv \in {0, 1},
          pick \in language_sentences(Self) :
          UpdateWith(typed_text, adv, pick)

ShowResults ==
    /\ Commit("show_results", show_results(Self))
    /\ Returns(NoProgress, "none")
    /\ UNCHANGED <<now, updates>>

restart_game(s) == start_countdown(s)

RestartGame ==
    /\ Commit("restart_game", restart_game(Self))
    /\ Returns(NoProgress, "none")
    /\ UNCHANGED <<now, updates>>

change_settings(s) == [s EXCEPT !.app_state = "Language"]

ChangeSettings ==
    /\ Commit("change_settings", change_settings(Self))
    /\ Returns(NoProgress, "none")
    /\ UNCHANGED <<now, updates>>

new_session(s) == [s EXCEPT !.app_state = "Welcome"]

NewSession ==
    /\ Commit("new_session", new_session(Self))
    /\ Returns(NoProgress, "none")
    /\ UNCHANGED <<now, updates>>

\* Time passes between two handlers.
ClockTick ==
    /\ now + TickMs <= MaxTicks * TickMs
    /\ now' = now + TickMs
    /\ Commit("clock", Self)
    /\ Returns(NoProgress, "none")
    /\ UNCHANGED updates

Next ==
    \/ Initialize
    \/ SetUserName
    \/ SetLanguage
    \/ SetDuration
    \/ ProceedToLanguage
    \/ ProceedToTimer
    \/ StartCountdown
    \/ CountdownTick
    \/ StartGameSession
    \/ GenerateNewSentence
    \/ StartTyping
    \/ UpdateTypingProgress
    \/ ShowResults
    \/ RestartGame
    \/ ChangeSettings
    \/ NewSession
    \/ ClockTick

Spec == Init /\ [][Next]_vars

\* The screen flow: configuration, navigation and the countdown, without the
\* typing methods.  The typing methods write app_state only through
\* end_session, and read none of what navigation writes.
NextFlow ==
    \/ Initialize
    \/ SetUserName
    \/ SetLanguage
    \/ SetDuration
    \/ ProceedToLanguage
    \/ ProceedToTimer
    \/ StartCountdown
    \/ CountdownTick
    \/ StartGameSession
    \/ ShowResults
    \/ RestartGame
    \/ ChangeSettings
    \/ NewSession
    \/ ClockTick

SpecFlow == Init /\ [][NextFlow]_vars

\* A typing session: the session is started directly, the host types, calls
\* the public typing methods and changes the duration; time passes.
NextTyping ==
    \/ SetDuration
    \/ StartGameSession
    \/ GenerateNewSentence
    \/ StartTyping
    \/ UpdateTypingProgress
    \/ ClockTick

SpecTyping == Init /\ [][NextTyping]_vars

\* Sessions started by the countdown, with the default duration.
NextCountdown ==
    \/ StartCountdown
    \/ CountdownTick
    \/ RestartGame
    \/ UpdateTypingProgress
    \/ ClockTick

SpecCountdown == Init /\ [][NextCountdown]_vars

\* The configuration surface: the stored profile is loaded and the host sets
\* the name, the language and the duration.
NextConfig ==
    \/ Initialize
    \/ SetUserName
    \/ SetLanguage
    \/ SetDuration
    \/ ProceedToLanguage

SpecConfig == Init /\ [][NextConfig]_vars

\* Sentence generation under every language the profile can hold: the
\* stored profile is loaded, the host sets the language, draws sentences
\* and starts sessions.
NextSentence ==
    \/ Initialize
    \/ SetLanguage
    \/ GenerateNewSentence
    \/ StartGameSession
    \/ ClockTick

SpecSentence == Init /\ [][NextSentence]_vars

\* The host keeps delivering typed texts: at most MaxUpdates of them at
\* other times, and always while a session whose duration has elapsed is
\* still in Playing.
DeliverUpdate ==
    /\ \/ updates < MaxUpdates
       \/ /\ app_state = "Playing"
          /\ is_time_expired(Self, now)
    /\ \E typed_text \in Texts, adv \in {0, 1},
          pick \in language_sentences(Self) :
          UpdateWith(typed_text, adv, pick)

\* One session, started by the countdown; the clock keeps advancing up to
\* its range and the host keeps delivering typed texts.
NextLive ==
    \/ CountdownTick
    \/ DeliverUpdate
    \/ ClockTick

SpecLive ==
    /\ Init
    /\ [][NextLive]_vars
    /\ WF_vars(ClockTick)
    /\ WF_vars(DeliverUpdate)

\* The calculation methods as functions of the fields they read.  The
\* counts, the recorded active time (ms), the attempt's start time and the
\* clock are drawn from small sets that hold the boundary of one second;
\* nothing is counted correct where nothing was typed, and every field the
\* methods do not read is as TypingApp::new leaves it.
CalcCounts == (0..MaxCount) \cup {26}
CalcClock == {0, 500, 999, 1000, 60000}
CalcStart == {None, 0, 500}

InitDrawn ==
    /\ user_data = DefaultUserData
    /\ session_result = NoResult
    /\ app_state = "Loading"
    /\ current_sentence = <<>>
    /\ start_time \in CalcStart
    /\ end_time = None
    /\ typed_chars \in CalcCounts
    /\ correct_chars \in CalcCounts
    /\ is_active = FALSE
    /\ session_start_time = None
    /\ session_total_typed_chars \in CalcCounts
    /\ session_total_correct_chars \in CalcCounts
    /\ session_total_time_spent \in CalcClock
    /\ session_sentences_completed =
           (IF session_total_typed_chars + session_total_time_spent > 0
            THEN 1 ELSE 0)
    /\ typed_chars = 0 => correct_chars = 0
    /\ session_total_typed_chars = 0 => session_total_correct_chars = 0
    /\ countdown_value = CountdownStart
    /\ storage = NoProfile
    /\ now \in CalcClock
    /\ start_time <= now
    /\ last_result = NoProgress
    /\ last_ok = "none"
    /\ last_call =
           [op |-> "new", text |-> <<>>, fns |-> {}, from |-> "Loading"]
    /\ session_ended = FALSE
    /\ updates = 0

\* The counts as update_typing_progress and complete_sentence leave them.
InitCalc ==
    /\ InitDrawn
    /\ correct_chars <= typed_chars
    /\ session_total_correct_chars <= session_total_typed_chars

\* Counts no sequence of calls produces: more correct than typed.
InitCorrupt ==
    /\ InitDrawn
    /\ \/ correct_chars > typed_chars
       \/ session_total_correct_chars > session_total_typed_chars

\* create_progress_result evaluates calculate_current_wpm,
\* calculate_current_accuracy and get_remaining_time.
CreateProgressResult ==
    \E is_complete \in BOOLEAN, time_expired \in BOOLEAN :
        /\ Commit("create_progress_result", Self)
        /\ Returns(create_progress_result(Self, is_complete, time_expired,
                                          now), "none")
        /\ UNCHANGED <<now, updates>>

\* end_session evaluates calculate_session_wpm and
\* calculate_session_accuracy and stores them in the session result; it is
\* applied once to the totals drawn.
EndSession ==
    /\ ~session_ended
    /\ Commit("end_session", end_session(Self))
    /\ Returns(NoProgress, "none")
    /\ UNCHANGED <<now, updates>>

NextCalc ==
    \/ CreateProgressResult
    \/ EndSession

SpecCalc == InitCalc /\ [][NextCalc]_vars

SpecCorrupt == InitCorrupt /\ [][NextCalc]_vars

\* ------------------------------------------------------------------ claims
\* The step just taken is a call of the public method op.
Called(op) == last_call'.op = op

SessionCounters ==
    <<session_start_time, session_total_typed_chars,
      session_total_correct_chars, session_total_time_spent,
      session_sentences_completed>>

\* The enumerated transitions: the phase in which each operation is valid.
LegalIn(op) ==
    CASE op = "proceed_to_language" -> {"Welcome"}
      [] op = "proceed_to_timer" -> {"Language"}
      [] op = "start_countdown" -> {"Timer"}
      [] op = "countdown_tick" -> {"Countdown"}
      [] op = "start_game_session" -> {"Countdown"}
      [] op = "show_results" -> {"Playing"}
      [] op = "restart_game" -> {"Results"}
      [] op = "change_settings" -> {"Results"}
      [] op = "new_session" -> {"Results"}

TransitionOps ==
    {"proceed_to_language", "proceed_to_timer", "start_countdown",
     "countdown_tick", "start_game_session", "show_results", "restart_game",
     "change_settings", "new_session"}

\* C1: a transition operation called in a phase that is not its source
\* phase in the enumerated transitions leaves the phase, the countdown value
\* and the session counters unchanged.
C1_IllegalTransitionIsNoOp ==
    [][\A op \in TransitionOps :
          (Called(op) /\ app_state \notin LegalIn(op)) =>
              UNCHANGED <<app_state, countdown_value, SessionCounters>>]_vars

\* The update just handled found the session expired and the sentence not
\* complete, in a session that had not ended yet.
TimeoutMidSentence ==
    /\ Called("update_typing_progress")
    /\ app_state = "Playing"
    /\ ~session_ended
    /\ last_result'.time_expired
    /\ ~last_result'.is_complete

\* C2: when the session ends by timeout with the sentence not complete, the
\* result's typed_chars and correct_chars include the unfinished attempt's
\* typed and correct characters.
C2_TimeoutFoldsUnfinishedAttempt ==
    [][TimeoutMidSentence =>
          /\ session_result'.some
          /\ session_result'.typed_chars =
                 session_total_typed_chars + typed_chars'
          /\ session_result'.correct_chars =
                 session_total_correct_chars + correct_chars']_vars

\* end_time is set by complete_sentence alone and cleared when a sentence is
\* generated: it is set exactly when the current sentence has been folded.
AttemptFolded == end_time # None

\* C3: a sentence that has been folded into the session totals is not
\* folded again by a later update, unless a new sentence was generated.
C3_AttemptFoldedAtMostOnce ==
    [][AttemptFolded => "complete_sentence" \notin last_call'.fns]_vars

\* C4: an update during Playing increments sentencesCompleted only if the
\* typed text is exactly as long as the sentence.
C4_CompletedOnlyOnExactLength ==
    [][(/\ Called("update_typing_progress")
        /\ app_state = "Playing"
        /\ session_sentences_completed' # session_sentences_completed)
       => ByteLen(last_call'.text) = ByteLen(current_sentence)]_vars

\* C5: once end_session has stored the result of a session, the result does
\* not change until a new session is started.
C5_ResultStoredOncePerSession ==
    [][(session_ended /\ session_ended') =>
          session_result' = session_result]_vars

\* The session's duration has elapsed when the clock shows t.
DurationElapsed(t) ==
    /\ session_start_time # None
    /\ t - session_start_time >= user_data.duration * MsPerSecond

\* The stored result is the snapshot of the session totals.
ResultOfTotals ==
    /\ session_result'.some
    /\ session_result'.typed_chars = session_total_typed_chars'
    /\ session_result'.correct_chars = session_total_correct_chars'
    /\ session_result'.time_spent = session_total_time_spent'
    /\ session_result'.sentences_completed = session_sentences_completed'

\* C6: an update handled during Playing when the duration has elapsed ends
\* in Results with a result produced, whether or not it completed the
\* sentence; an update takes Playing to Results only if the duration has
\* elapsed on the clock the handler read.  During Playing a session start
\* time is set.
C6_TimeoutEndsSession ==
    [][/\ (Called("update_typing_progress") /\ app_state = "Playing"
           /\ DurationElapsed(now))
          => (/\ app_state' = "Results"
              /\ "end_session" \in last_call'.fns
              /\ ResultOfTotals)
       /\ (Called("update_typing_progress") /\ app_state = "Playing"
           /\ app_state' = "Results")
          => DurationElapsed(now')
       /\ app_state' = "Playing" => session_start_time' # None]_vars

\* An update that completed its sentence ended the session from Playing, the
\* duration having elapsed.
C6_Witness ==
    /\ last_call.op = "update_typing_progress"
    /\ last_call.from = "Playing"
    /\ app_state = "Results"
    /\ last_result.time_expired
    /\ last_result.is_complete
    /\ session_result.typed_chars > 0

\* C7: when an update during Playing completes the sentence and the
\* duration has not elapsed, the phase stays Playing, a sentence of the
\* configured language is generated, the attempt is reset, and the totals
\* hold what they held plus the completed attempt.
C7_CompletionStartsNewSentence ==
    [][(/\ Called("update_typing_progress")
        /\ app_state = "Playing"
        /\ ByteLen(last_call'.text) >= ByteLen(current_sentence)
        /\ ~DurationElapsed(now'))
       => LET typed_text == last_call'.text
          IN (/\ app_state' = "Playing"
              /\ "generate_new_sentence" \in last_call'.fns
              /\ current_sentence' \in language_sentences(Self)
              /\ typed_chars' = 0
              /\ correct_chars' = 0
              /\ start_time' = None
              /\ end_time' = None
              /\ is_active' = FALSE
              /\ session_total_typed_chars' =
                     session_total_typed_chars + ByteLen(typed_text)
              /\ session_total_correct_chars' =
                     session_total_correct_chars
                         + CountCorrect(typed_text, current_sentence)
              /\ session_sentences_completed' =
                     session_sentences_completed + 1
              /\ session_total_time_spent' =
                     session_total_time_spent
                         + (now' - (IF is_active THEN start_time ELSE now))
              /\ session_start_time' = session_start_time
              /\ session_result' = session_result)]_vars

\* A completed sentence was folded and followed by a new one, in Playing.
C7_Witness ==
    /\ last_call.op = "update_typing_progress"
    /\ last_call.from = "Playing"
    /\ app_state = "Playing"
    /\ {"complete_sentence", "generate_new_sentence"} \subseteq last_call.fns
    /\ session_total_typed_chars > session_total_correct_chars
    /\ session_total_time_spent > 0

\* C8: start_countdown sets the count to 5; a tick at a positive count
\* lowers it by exactly 1; the tick from 1 to 0, and no other tick, enters
\* Playing, with the session start time set to the clock, the totals zero
\* and a sentence of the configured language generated; a tick at count 0
\* changes nothing; the count stays within 0..5.
C8_Countdown ==
    [][/\ Called("start_countdown") => countdown_value' = CountdownStart
       /\ (Called("countdown_tick") /\ countdown_value > 0)
          => countdown_value' = countdown_value - 1
       /\ (Called("countdown_tick") /\ countdown_value = 1)
          => (/\ app_state' = "Playing"
              /\ session_start_time' = now
              /\ session_total_typed_chars' = 0
              /\ session_total_correct_chars' = 0
              /\ session_total_time_spent' = 0
              /\ session_sentences_completed' = 0
              /\ current_sentence' \in language_sentences(Self)
              /\ typed_chars' = 0 /\ correct_chars' = 0
              /\ start_time' = None /\ end_time' = None /\ ~is_active')
       /\ (Called("countdown_tick") /\ countdown_value # 1)
          => UNCHANGED <<app_state, SessionCounters, current_sentence,
                         typed_chars, correct_chars, start_time, end_time,
                         is_active>>
       /\ (Called("countdown_tick") /\ countdown_value = 0)
          => UNCHANGED <<countdown_value, user_data, session_result,
                         storage>>
       /\ countdown_value' \in 0..CountdownStart]_vars

\* The tick to 0 started a session after an earlier session's totals had
\* been used.
C8_Witness ==
    /\ last_call.op = "countdown_tick"
    /\ countdown_value = 0
    /\ app_state = "Playing"
    /\ "initialize_game" \in last_call.fns
    /\ session_result.typed_chars > 0
    /\ session_total_typed_chars = 0

\* C9: once start_time is assigned for a sentence, no later call assigns it
\* again before a new sentence is generated.  (start_time is cleared only
\* when a sentence is generated; within a handler start_typing runs before
\* any generation.)
C9_StartTimeAssignedOnce ==
    [][start_time # None => "start_typing" \notin last_call'.fns]_vars

MatchingPositions(typed, target) ==
    {i \in 1..Min(Len(typed), Len(target)) : typed[i] = target[i]}

\* The correct count of the update just handled: the attempt's count, or
\* what the update added to the session total when it folded the attempt
\* (the attempt's count is cleared when a new sentence follows).
CountedCorrect ==
    IF "complete_sentence" \in last_call'.fns
    THEN session_total_correct_chars' - session_total_correct_chars
    ELSE correct_chars'

\* C11: the correct count computed by an update is the number of positions
\* below min(L, T) at which the typed text equals the target; it is at most
\* min(L, T), in characters and in bytes.
C11_CorrectCountIsPositionwise ==
    [][Called("update_typing_progress")
       => LET typed == last_call'.text
              target == current_sentence
          IN  /\ CountedCorrect = Cardinality(MatchingPositions(typed, target))
              /\ CountedCorrect <= Min(Len(typed), Len(target))
              /\ CountedCorrect <= Min(ByteLen(typed), ByteLen(target))
              /\ last_result'.correct_chars = correct_chars']_vars

\* The two-character text "aa" was typed against the one-character sentence
\* "a" and folded: two typed, one correct.
C11_Witness ==
    /\ last_call.op = "update_typing_progress"
    /\ "complete_sentence" \in last_call.fns
    /\ Len(last_call.text) = 2
    /\ session_sentences_completed = 1
    /\ session_total_typed_chars = 2
    /\ session_total_correct_chars = 1

\* C12: in every state the session's correct-character total is at most its
\* typed-character total, and so are the counts of a stored session result.
C12_CorrectNeverExceedsTyped ==
    /\ session_total_correct_chars <= session_total_typed_chars
    /\ session_result.some
       => session_result.correct_chars <= session_result.typed_chars

\* A second session, started after the first one's result was stored, has
\* folded an attempt with fewer correct than typed characters.
C12_Witness ==
    /\ session_result.some
    /\ session_result.correct_chars > 0
    /\ ~session_ended
    /\ session_total_correct_chars > 0
    /\ session_total_typed_chars > session_total_correct_chars

\* C13: a step that does not start a session decreases none of the four
\* session totals; a step that starts a session leaves all four zero.
C13_TotalsMonotoneWithinSession ==
    [][IF "initialize_game" \in last_call'.fns
       THEN /\ session_total_typed_chars' = 0
            /\ session_total_correct_chars' = 0
            /\ session_total_time_spent' = 0
            /\ session_sentences_completed' = 0
       ELSE /\ session_total_typed_chars' >= session_total_typed_chars
            /\ session_total_correct_chars' >= session_total_correct_chars
            /\ session_total_time_spent' >= session_total_time_spent
            /\ session_sentences_completed' >= session_sentences_completed
      ]_vars

\* Two sentences were folded in one session, with active time recorded.
C13_Witness ==
    /\ last_call.op = "update_typing_progress"
    /\ "complete_sentence" \in last_call.fns
    /\ session_start_time # None
    /\ session_sentences_completed = 2
    /\ session_total_typed_chars > 0
    /\ session_total_time_spent > 0

\* C14: the session WPM stored by end_session is 0 whenever the recorded
\* active time is below one second.
C14_SessionWpmZeroBelowOneSecond ==
    [][(Called("end_session") /\ session_total_time_spent < MsPerSecond)
       => session_result'.wpm = 0]_vars

\* C15: with more correct than typed characters, the instantaneous accuracy
\* and the session accuracy are 0.
C15_AccuracyZeroOnCorruptCounts ==
    [][/\ (Called("create_progress_result") /\ correct_chars > typed_chars)
          => last_result'.accuracy.num = 0
       /\ (Called("end_session")
           /\ session_total_correct_chars > session_total_typed_chars)
          => session_result'.accuracy = 0]_vars

\* C16: the instantaneous WPM is within [0, 300], and is 0 when nothing is
\* typed, when no start time is set, or when less than 1000 ms have elapsed
\* since the start time.
C16_CurrentWpmBounded ==
    [][Called("create_progress_result")
       => LET wpm == last_result'.wpm
          IN  /\ wpm.den > 0
              /\ wpm.num >= 0
              /\ wpm.num <= MaxWpm * wpm.den
              /\ (\/ typed_chars = 0
                  \/ start_time = None
                  \/ now - start_time < MinElapsedMs)
                 => wpm.num = 0]_vars

\* Characters were typed 500 ms after the start time: the WPM is 0.
C16_Witness ==
    /\ last_call.op = "create_progress_result"
    /\ typed_chars > 0
    /\ start_time # None
    /\ now - start_time = 500
    /\ last_result.valid
    /\ last_result.wpm.num = 0

\* C17: the accuracy an update reports is within [0, 100], and is 100 when
\* the typed count it reports is 0.
C17_CurrentAccuracyBounded ==
    [][Called("update_typing_progress")
       => LET accuracy == last_result'.accuracy
          IN  /\ accuracy.den > 0
              /\ accuracy.num >= 0
              /\ accuracy.num <= MaxAccuracy * accuracy.den
              /\ last_result'.typed_chars = 0
                 => accuracy.num = MaxAccuracy * accuracy.den]_vars

\* The empty text was submitted against a sentence during Playing: nothing
\* typed, accuracy 100.
C17_Witness ==
    /\ last_call.op = "update_typing_progress"
    /\ last_call.from = "Playing"
    /\ last_call.text = <<>>
    /\ current_sentence # <<>>
    /\ last_result.valid
    /\ last_result.typed_chars = 0
    /\ last_result.accuracy.num = MaxAccuracy * last_result.accuracy.den

\* C18: after set_duration(d) the configured duration is max(d, 1); the
\* configured duration is never 0, and a session is not expired at the
\* moment it starts.
C18_DurationAtLeastOne ==
    [][/\ Called("set_duration")
          => user_data'.duration \in {Max(d, 1) : d \in DurationInputs}
       /\ user_data'.duration # 0
       /\ "initialize_game" \in last_call'.fns
          => ~is_time_expired(Self', now')]_vars

\* The fields of the struct.
StructFields ==
    <<user_data, session_result, app_state, current_sentence, start_time,
      end_time, typed_chars, correct_chars, is_active, SessionCounters,
      countdown_value, storage>>

\* C19: set_user_name with a name of fewer than 2 characters returns false
\* and changes no field; with 2 or more characters it returns true and
\* stores the name.
C19_ShortNameRejected ==
    [][Called("set_user_name")
       => LET name == last_call'.text
          IN  IF Len(name) < MinNameLen
              THEN last_ok' = "false" /\ UNCHANGED StructFields
              ELSE last_ok' = "true" /\ user_data'.name = name]_vars

\* C20: set_language with a code that has no sentence collection changes no
\* field; a configured language that has a collection still has one after
\* set_language; a code that has a collection is stored with its name.
C20_UnknownLanguageRejected ==
    [][Called("set_language")
       => LET lang_code == last_call'.text[1]
              lang_name == last_call'.text[2]
          IN  /\ lang_code \notin DOMAIN sentences => UNCHANGED StructFields
              /\ user_data.language \in DOMAIN sentences
                 => user_data'.language \in DOMAIN sentences
              /\ lang_code \in DOMAIN sentences
                 => /\ user_data'.language = lang_code
                    /\ user_data'.language_name = lang_name]_vars

\* An unknown code was passed after a known language had been chosen, and
\* the choice is still in place.
C20_Witness ==
    /\ last_call.op = "set_language"
    /\ last_call.text[1] \notin DOMAIN sentences
    /\ user_data.language = "es"
    /\ user_data.language_name = "Espanol"
    /\ storage.present
    /\ storage.data.language = "es"

\* C21: every call that generates a sentence leaves a non-empty current
\* sentence, drawn from the collection of the configured language when the
\* code is known and from the collection of the default language when not.
C21_SentenceAlwaysGenerated ==
    [][("generate_new_sentence" \in last_call'.fns
        \/ Called("generate_new_sentence"))
       => /\ current_sentence' # <<>>
          /\ current_sentence' \in
                 (IF user_data'.language \in DOMAIN sentences
                  THEN sentences[user_data'.language]
                  ELSE sentences[DefaultUserData.language])]_vars

\* A sentence was generated under a language code, loaded with the
\* profile, that has no collection.
C21_Witness ==
    /\ last_call.op = "generate_new_sentence"
    /\ user_data.language \notin DOMAIN sentences
    /\ current_sentence \in sentences[DefaultUserData.language]

\* C22: an update with the empty text reports typed count 0, correct count
\* 0 and is_complete false, and leaves the session totals and the phase
\* unchanged.
C22_EmptyTextIsNoOp ==
    [][(Called("update_typing_progress") /\ last_call'.text = <<>>)
       => /\ last_result'.typed_chars = 0
          /\ last_result'.correct_chars = 0
          /\ ~last_result'.is_complete
          /\ UNCHANGED <<session_total_typed_chars,
                         session_total_correct_chars,
                         session_total_time_spent,
                         session_sentences_completed, app_state>>]_vars

\* C23: whenever the phase is Results a session result exists, it holds the
\* session totals, and it is the result of the session that just ended.
C23_ResultsHasResult ==
    app_state = "Results"
    => /\ session_result.some
       /\ session_ended
       /\ session_result.typed_chars = session_total_typed_chars
       /\ session_result.correct_chars = session_total_correct_chars
       /\ session_result.time_spent = session_total_time_spent
       /\ session_result.sentences_completed = session_sentences_completed

\* C24: the first end of a session increments total_sessions by 1, and
\* once a session has ended total_sessions does not change before the next
\* session starts.
C24_OneSessionCountedOnce ==
    [][/\ ("end_session" \in last_call'.fns /\ ~session_ended)
          => user_data'.total_sessions = user_data.total_sessions + 1
       /\ (session_ended /\ session_ended')
          => user_data'.total_sessions = user_data.total_sessions]_vars

\* C25: an update with a text shorter than the sentence, handled before
\* the duration has elapsed, changes only the attempt's typed count,
\* correct count, active flag and, when the attempt was not active, its
\* start time.
C25_PlainUpdateFrame ==
    [][(/\ Called("update_typing_progress")
        /\ ByteLen(last_call'.text) < ByteLen(current_sentence)
        /\ ~DurationElapsed(now))
       => /\ UNCHANGED <<app_state, SessionCounters, current_sentence,
                         session_result, user_data, storage, end_time,
                         countdown_value>>
          /\ typed_chars' = ByteLen(last_call'.text)
          /\ correct_chars' =
                 Cardinality(MatchingPositions(last_call'.text,
                                               current_sentence))
          /\ is_active'
          /\ start_time' = (IF is_active THEN start_time ELSE now)]_vars

\* An unfinished text was handled in Playing before the duration had
\* elapsed, for an attempt that started earlier than the clock now shows.
C25_Witness ==
    /\ last_call.op = "update_typing_progress"
    /\ last_call.from = "Playing"
    /\ app_state = "Playing"
    /\ last_result.valid
    /\ ~last_result.is_complete
    /\ ~last_result.time_expired
    /\ last_result.typed_chars > 0
    /\ is_active
    /\ start_time # None
    /\ start_time < now

\* The session's end lies within the range of the clock.
EndsWithinClockRange ==
    /\ session_start_time # None
    /\ session_start_time + user_data.duration * MsPerSecond
           <= MaxTicks * TickMs

\* C26: with the clock advancing and typed texts being delivered, a session
\* in Playing whose end lies within the range of the clock reaches Results;
\* and the phase leaves Playing only in a step that handles a typed text:
\* the passing of time alone leaves it in Playing.
C26_SessionReachesResultsWhenPolled ==
    /\ (app_state = "Playing" /\ EndsWithinClockRange)
           ~> (app_state = "Results")
    /\ [][(app_state = "Playing" /\ app_state' # "Playing")
            => (/\ Called("update_typing_progress")
                /\ app_state' = "Results"
                /\ DurationElapsed(now'))]_vars
    /\ [][(Called("clock") /\ app_state = "Playing")
            => app_state' = "Playing"]_vars

\* A session that was still in Playing after its duration had elapsed was
\* ended by a typed text that did not complete the sentence.
C26_Witness ==
    /\ last_call.op = "update_typing_progress"
    /\ last_call.from = "Playing"
    /\ app_state = "Results"
    /\ session_start_time # None
    /\ now - session_start_time >= user_data.duration * MsPerSecond
    /\ last_result.time_expired
    /\ ~last_result.is_complete
    /\ "complete_sentence" \notin last_call.fns

====
